---- MODULE Spec2Model ----
(***************************************************************************)
(* Model of the pest-alert service of src/app.py: the farms and alerts     *)
(* tables, the request-scoped sessions of get_db, the weather client's     *)
(* normalisation, the rule evaluator and the four HTTP handlers.           *)
(*                                                                         *)
(* Conventions.  An optional value (Python None / a missing key) is the    *)
(* empty sequence <<>>, a present value v is <<v>>.  Numbers are integers. *)
(* A text built by concatenation is the sequence of the pieces that were   *)
(* concatenated.  The synchronous handlers (create_farm, list_farms,       *)
(* list_alerts) are one step each; run_checks is a coroutine and is one    *)
(* step per stretch between two suspensions (its await of get_weather).    *)
(***************************************************************************)
EXTENDS Integers, Sequences, FiniteSets, TLC

VARIABLES
    farms,      \* rows of table "farms", in insertion order
    alerts,     \* rows of table "alerts", in insertion order
    sessions,   \* requests whose SessionLocal() session is open
    run,        \* per run_checks request: position and locals of the coroutine
    resp,       \* what the most recent step sent back (kind "none": nothing)
    weather,    \* argument of a direct call of evaluate_rules
    pests       \* <<>> before that call, <<result>> after it

vars == <<farms, alerts, sessions, run, resp, weather, pests>>

----------------------------------------------------------------------------
(* Bounds of the model *)

MaxFarms == 2            \* farms created in Spec
MaxAlerts == 2           \* alerts stored in Spec
ConcFarms == 2           \* farms created in SpecConc
ConcAlerts == 2          \* alerts stored in SpecConc
CapStored == 99          \* alerts already stored when SpecCap starts
CapExtra == 3            \* alerts added in SpecCap on top of the stored ones

Tasks == {1, 2}          \* slots of run_checks requests in flight
OneTask == {1}
SyncReq == 0             \* the request id of a synchronous handler's step

Times == {0, 1}          \* readings of datetime.utcnow (a wall clock)
OneTime == {0}           \* the same, where the order of alerts is not at stake

None == <<>>
Some(v) == <<v>>
Val(x) == x[1]

----------------------------------------------------------------------------
(* Program constants *)

INTERNAL_TOKEN == "my-secret-token"
Tokens == {None, Some(INTERNAL_TOKEN), Some("wrong")}

ALERT_LIMIT == 100

MILDEW == "Powdery mildew (possible)"
APHIDS == "Aphids (possible)"
GRAYMOLD == "Gray mold / Botrytis (possible)"

----------------------------------------------------------------------------
(* get_db: one session per request, closed in the finally clause *)

SessionOpen(S, r) == S \cup {r}

\* get_db without its finally clause
SessionLeak(S, r) == S

SessionClose(S, r) == S \ {r}

----------------------------------------------------------------------------
(* get_weather: the normalisation of the provider's JSON document.         *)
(* A payload is [temp, humidity: optional number, rain: the "rain" member] *)
(* where rain is <<"absent">> (no such key), <<"scalar">> (not a dict),    *)
(* <<"dict">> (a dict without "1h") or <<"dict", v>> (a dict with "1h": v, *)
(* v optional: JSON null is None).                                         *)

NormalizeRain(rain) ==
    IF rain[1] = "dict"
    THEN (IF Len(rain) = 2 THEN rain[2] ELSE Some(0))
    ELSE Some(0)

get_weather(payload) ==
    [temperature |-> payload.temp,
     humidity |-> payload.humidity,
     rain_mm |-> NormalizeRain(payload.rain)]

----------------------------------------------------------------------------
(* evaluate_rules *)

\* weather.get("rain_mm", 0) or 0
RainOrZero(w) == IF w.rain_mm = None THEN 0 ELSE Val(w.rain_mm)

MildewRule(temp, hum) == hum > 80 /\ 20 <= temp /\ temp <= 28

AphidsRule(temp, hum) == temp > 30 /\ hum < 40

\* the gray mold rule with the rain threshold at 10
GrayMoldRuleHeavyRain(hum, rain) == hum > 85 /\ rain > 10

GrayMoldRule(hum, rain) == hum > 85 /\ rain > 5

\* evaluate_rules with the first and the third rule exchanged
evaluate_rules_swapped(w) ==
    LET rain == RainOrZero(w)
    IN  IF w.humidity # None /\ w.temperature # None
        THEN LET temp == Val(w.temperature)
                 hum == Val(w.humidity)
             IN  (IF GrayMoldRule(hum, rain) THEN <<GRAYMOLD>> ELSE <<>>)
                 \o (IF AphidsRule(temp, hum) THEN <<APHIDS>> ELSE <<>>)
                 \o (IF MildewRule(temp, hum) THEN <<MILDEW>> ELSE <<>>)
        ELSE <<>>

evaluate_rules(w) ==
    LET rain == RainOrZero(w)
    IN  IF w.humidity # None /\ w.temperature # None
        THEN LET temp == Val(w.temperature)
                 hum == Val(w.humidity)
             IN  (IF MildewRule(temp, hum) THEN <<MILDEW>> ELSE <<>>)
                 \o (IF AphidsRule(temp, hum) THEN <<APHIDS>> ELSE <<>>)
                 \o (IF GrayMoldRule(hum, rain) THEN <<GRAYMOLD>> ELSE <<>>)
        ELSE <<>>

----------------------------------------------------------------------------
(* Tables *)

Ids(rows) == {rows[i].id : i \in 1..Len(rows)}

MaxId(rows) == IF rows = <<>> THEN 0
               ELSE CHOOSE m \in Ids(rows) : \A x \in Ids(rows) : x <= m

\* an id taken from the number of rows
NextIdCount(rows) == IF rows = <<>> THEN 1 ELSE Len(rows)

\* INTEGER PRIMARY KEY of SQLite: one more than the largest rowid in the table
NextId(rows) == MaxId(rows) + 1

RECURSIVE Join(_, _)
\* sep.join(parts), as the sequence of the pieces
Join(parts, sep) ==
    IF Len(parts) <= 1 THEN parts
    ELSE <<Head(parts), sep>> \o Join(Tail(parts), sep)

\* f"Farm '{farm.name}' potential pests: " + "; ".join(pests)
Message(farm, labels) ==
    <<"Farm '", farm.name, "' potential pests: ">> \o Join(labels, "; ")

\* an alert that points one farm further
AlertFarmIdWrong(farm) == farm.id + 1

\* Alert(farm_id=farm.id, ...)
AlertFarmId(farm) == farm.id

NewAlert(farm, labels, ts) ==
    [id |-> NextId(alerts), farm_id |-> AlertFarmId(farm),
     message |-> Message(farm, labels), timestamp |-> ts]

----------------------------------------------------------------------------
(* The synchronous handlers *)

\* Request bodies of POST /farms/ (FarmCreate)
Bodies ==
    { [name |-> "Farm A", latitude |-> 10, longitude |-> 20],
      [name |-> "Farm B", latitude |-> -5, longitude |-> 30] }

NoResponse == [kind |-> "none"]

\* FarmOut (orm_mode): the id, name, latitude and longitude of the row
FarmOut(farm) ==
    [id |-> farm.id, name |-> farm.name,
     latitude |-> farm.latitude, longitude |-> farm.longitude]

\* POST /farms/ ; committed says whether db.commit() succeeded
create_farm(farm_in, committed) ==
    LET farm == [id |-> NextId(farms), name |-> farm_in.name,
                 latitude |-> farm_in.latitude, longitude |-> farm_in.longitude]
    IN  /\ farms' = IF committed THEN Append(farms, farm) ELSE farms
        /\ resp' = IF committed
                   THEN [kind |-> "create_farm", status |-> 200,
                         body |-> farm_in, out |-> FarmOut(farm)]
                   ELSE [kind |-> "create_farm", status |-> 500, body |-> farm_in]
        /\ sessions' = SessionClose(SessionOpen(sessions, SyncReq), SyncReq)
        /\ UNCHANGED <<alerts, run, weather, pests>>

\* db.query(Farm).all()
ListFarmsQuery(rows) == rows

\* GET /farms/
list_farms ==
    /\ resp' = [kind |-> "list_farms", status |-> 200,
                out |-> [i \in 1..Len(ListFarmsQuery(farms)) |->
                            FarmOut(ListFarmsQuery(farms)[i])]]
    /\ sessions' = SessionClose(SessionOpen(sessions, SyncReq), SyncReq)
    /\ UNCHANGED <<farms, alerts, run, weather, pests>>

Reverse(s) == [i \in 1..Len(s) |-> s[Len(s) + 1 - i]]

\* order_by(Alert.timestamp), oldest first
OrderByAsc(a, b) == a.timestamp < b.timestamp

\* order_by(Alert.timestamp.desc()): a goes before b
OrderByDesc(a, b) == a.timestamp > b.timestamp

\* The rows the database hands back for equal timestamps come in an order SQL
\* leaves open: in rowid order, or in reverse rowid order.
Ties == {"rowid", "reverse"}

\* db.query(Alert).order_by(Alert.timestamp.desc()).limit(100).all()
ListAlertsQuery(rows, tie) ==
    LET scanned == IF tie = "rowid" THEN rows ELSE Reverse(rows)
        sorted == SortSeq(scanned, OrderByDesc)
    IN  SubSeq(sorted, 1, IF Len(sorted) < ALERT_LIMIT THEN Len(sorted) ELSE ALERT_LIMIT)

\* GET /alerts/
list_alerts(tie) ==
    /\ resp' = [kind |-> "list_alerts", status |-> 200,
                out |-> ListAlertsQuery(alerts, tie)]
    /\ sessions' = SessionClose(SessionOpen(sessions, SyncReq), SyncReq)
    /\ UNCHANGED <<farms, alerts, run, weather, pests>>

----------------------------------------------------------------------------
(* run_checks *)

\* A run_checks request: pc is "idle" (no request in this slot), "fetch"
\* (suspended in await get_weather for farms[i]) or "finished"; token, farms,
\* weather and pests are the handler's parameter and locals; fetches counts the
\* calls of get_weather, hits is the set of positions of farms whose rules
\* matched, made the ids of the alerts this request added; error, status and
\* summary are its outcome (the exception, the HTTP status, the returned dict).
IdleRun ==
    [pc |-> "idle", token |-> None, farms |-> <<>>, i |-> 0, fetches |-> 0,
     weather |-> None, pests |-> <<>>, hits |-> {}, made |-> {},
     error |-> "none", status |-> 0, summary |-> None]

\* a comparison that lets a missing token through
TokenOkOrAbsent(token) == token = None \/ token = Some(INTERNAL_TOKEN)

\* not (token != INTERNAL_TOKEN)
TokenOk(token) == token = Some(INTERNAL_TOKEN)

\* the count of the farms stored when the handler returns
CheckedStored(loaded) == Len(farms)

\* len(farms), of the list loaded by this run
Checked(loaded) == Len(loaded)

\* {"status": "done", "checked": len(farms)}
Summary(loaded) == [status |-> "done", checked |-> Checked(loaded)]

\* an alert for every farm checked
ShouldAlertAlways(labels) == TRUE

\* if pests:
ShouldAlert(labels) == labels # <<>>

RunResponse(t, r) ==
    [kind |-> "run_checks", task |-> t, status |-> r.status, body |-> r.summary]

\* The request arrives: get_db opens the session, the token is compared, the
\* farms are loaded and the coroutine runs up to its first await.
RunStart(t, token) ==
    /\ run[t].pc # "fetch"
    /\ LET new ==
            IF ~TokenOk(token)
            THEN [IdleRun EXCEPT !.pc = "finished", !.token = token,
                                 !.error = "forbidden", !.status = 403]
            ELSE IF ListFarmsQuery(farms) = <<>>
            THEN [IdleRun EXCEPT !.pc = "finished", !.token = token,
                                 !.status = 200, !.summary = Some(Summary(<<>>))]
            ELSE [IdleRun EXCEPT !.pc = "fetch", !.token = token,
                                 !.farms = ListFarmsQuery(farms),
                                 !.i = 1, !.fetches = 1]
       IN  /\ run' = [run EXCEPT ![t] = new]
           /\ sessions' = IF new.pc = "finished"
                          THEN SessionClose(SessionOpen(sessions, t), t)
                          ELSE SessionOpen(sessions, t)
           /\ resp' = IF new.pc = "finished" THEN RunResponse(t, new) ELSE NoResponse
    /\ UNCHANGED <<farms, alerts, weather, pests>>

\* The awaited get_weather returns: the rules are evaluated, the alert (if any)
\* is added and committed, and the loop goes on to the next farm's fetch or the
\* handler returns.  committed says whether db.commit() succeeded; ts is the
\* value datetime.utcnow gives the new row.
FetchReturn(t, payload, committed, ts) ==
    /\ run[t].pc = "fetch"
    /\ LET r == run[t]
           farm == r.farms[r.i]
           reading == get_weather(payload)
           labels == evaluate_rules(reading)
           alert == NewAlert(farm, labels, ts)
           seen == [r EXCEPT !.weather = Some(reading), !.pests = labels,
                             !.hits = IF labels # <<>> THEN r.hits \cup {r.i}
                                                       ELSE r.hits]
           new ==
            IF ShouldAlert(labels) /\ ~committed
            THEN [seen EXCEPT !.pc = "finished", !.error = "storage", !.status = 500]
            ELSE LET made == IF ShouldAlert(labels) THEN r.made \cup {alert.id}
                                                    ELSE r.made
                 IN  IF r.i = Len(r.farms)
                     THEN [seen EXCEPT !.pc = "finished", !.made = made,
                                       !.status = 200,
                                       !.summary = Some(Summary(r.farms))]
                     ELSE [seen EXCEPT !.made = made, !.i = r.i + 1,
                                       !.fetches = r.fetches + 1]
       IN  /\ alerts' = IF ShouldAlert(labels) /\ committed
                        THEN Append(alerts, alert) ELSE alerts
           /\ run' = [run EXCEPT ![t] = new]
           /\ sessions' = IF new.pc = "finished" THEN SessionClose(sessions, t)
                                                 ELSE sessions
           /\ resp' = IF new.pc = "finished" THEN RunResponse(t, new) ELSE NoResponse
    /\ UNCHANGED <<farms, weather, pests>>

\* The failed fetch is tried again
FetchFailRetry(t) ==
    /\ run[t].pc = "fetch"
    /\ run' = [run EXCEPT ![t].fetches = run[t].fetches + 1]
    /\ resp' = NoResponse
    /\ UNCHANGED <<farms, alerts, sessions, weather, pests>>

\* The awaited get_weather raises (network error, raise_for_status, r.json()):
\* the exception leaves run_checks, the session is closed, the answer is 500.
FetchFail(t) ==
    /\ run[t].pc = "fetch"
    /\ LET new == [run[t] EXCEPT !.pc = "finished", !.error = "weather", !.status = 500]
       IN  /\ run' = [run EXCEPT ![t] = new]
           /\ sessions' = SessionClose(sessions, t)
           /\ resp' = RunResponse(t, new)
    /\ UNCHANGED <<farms, alerts, weather, pests>>

----------------------------------------------------------------------------
(* Spec: the service from an empty database *)

\* Provider documents: the reading 25 / 90 / 10, an aphids reading whose "rain"
\* member is no dict, and one without temperature and without "rain"
Payloads ==
    { [temp |-> Some(25), humidity |-> Some(90), rain |-> <<"dict", Some(10)>>],
      [temp |-> Some(31), humidity |-> Some(39), rain |-> <<"scalar">>],
      [temp |-> None, humidity |-> Some(90), rain |-> <<"absent">>] }

\* The first and the last of them
TwoPayloads == {p \in Payloads : p.temp # Some(31)}

Reading_25_90_10 ==
    [temperature |-> Some(25), humidity |-> Some(90), rain_mm |-> Some(10)]

Init ==
    /\ farms = <<>>
    /\ alerts = <<>>
    /\ sessions = {}
    /\ run = [t \in Tasks |-> IdleRun]
    /\ resp = NoResponse
    /\ weather = Reading_25_90_10
    /\ pests = None

Next ==
    \/ \E b \in Bodies, c \in BOOLEAN : Len(farms) < MaxFarms /\ create_farm(b, c)
    \/ list_farms
    \/ \E tie \in Ties : list_alerts(tie)
    \/ \E t \in OneTask, tok \in Tokens : RunStart(t, tok)
    \/ \E t \in OneTask, p \in Payloads, c \in BOOLEAN, ts \in OneTime :
          Len(alerts) < MaxAlerts /\ FetchReturn(t, p, c, ts)
    \/ \E t \in OneTask : FetchFail(t)

Spec == Init /\ [][Next]_vars

----------------------------------------------------------------------------
(* SpecConc: two run_checks requests in flight at once, over one request    *)
(* body.                                                                    *)

ConcBody == [name |-> "Farm A", latitude |-> 10, longitude |-> 20]

NextConc ==
    \/ Len(farms) < ConcFarms /\ create_farm(ConcBody, TRUE)
    \/ list_farms
    \/ \E tie \in Ties : list_alerts(tie)
    \/ \E t \in Tasks, tok \in Tokens : RunStart(t, tok)
    \/ \E t \in Tasks, p \in TwoPayloads, c \in BOOLEAN, ts \in OneTime :
          Len(alerts) < ConcAlerts /\ FetchReturn(t, p, c, ts)
    \/ \E t \in Tasks : FetchFail(t)

SpecConc == Init /\ [][NextConc]_vars

----------------------------------------------------------------------------
(* SpecCap: the service over a database file that already holds one farm    *)
(* and CapStored alerts of earlier runs (readings 25 / 90 / 10), stamped by *)
(* a wall clock that was set back now and then.                             *)

StoredFarm == [id |-> 1, name |-> "Farm A", latitude |-> 10, longitude |-> 20]

StoredAlert(k, period) ==
    [id |-> k, farm_id |-> AlertFarmId(StoredFarm),
     message |-> Message(StoredFarm, <<MILDEW, GRAYMOLD>>),
     timestamp |-> k % period]

InitCap ==
    /\ farms = <<StoredFarm>>
    /\ \E period \in {1, 2, 3} :
          alerts = [k \in 1..CapStored |-> StoredAlert(k, period)]
    /\ sessions = {}
    /\ run = [t \in Tasks |-> IdleRun]
    /\ resp = NoResponse
    /\ weather = Reading_25_90_10
    /\ pests = None

NextCap ==
    \/ \E tie \in Ties : list_alerts(tie)
    \/ \E t \in OneTask, tok \in Tokens : RunStart(t, tok)
    \/ \E t \in OneTask, p \in TwoPayloads, c \in BOOLEAN, ts \in Times :
          Len(alerts) < CapStored + CapExtra /\ FetchReturn(t, p, c, ts)
    \/ \E t \in OneTask : FetchFail(t)

SpecCap == InitCap /\ [][NextCap]_vars

----------------------------------------------------------------------------
(* SpecEval: one direct call of evaluate_rules on each reading whose        *)
(* temperature, humidity and rain are a number around the thresholds or     *)
(* absent.                                                                  *)

Opt(S) == {None} \cup {Some(v) : v \in S}

Readings ==
    [temperature : Opt({19, 20, 28, 29, 30, 31}),
     humidity : Opt({39, 40, 80, 81, 85, 86}),
     rain_mm : Opt({0, 5, 6})]

InitEval ==
    /\ farms = <<>>
    /\ alerts = <<>>
    /\ sessions = {}
    /\ run = [t \in Tasks |-> IdleRun]
    /\ resp = NoResponse
    /\ weather \in Readings
    /\ pests = None

Evaluate ==
    /\ pests = None
    /\ pests' = Some(evaluate_rules(weather))
    /\ UNCHANGED <<farms, alerts, sessions, run, resp, weather>>

NextEval == Evaluate

SpecEval == InitEval /\ [][NextEval]_vars

----------------------------------------------------------------------------
(* Helpers of the properties *)

Finished(t) == run[t].pc = "finished"

AlertById(id) == CHOOSE a \in {alerts[k] : k \in 1..Len(alerts)} : a.id = id

MadeFarmIds(r) == {AlertById(id).farm_id : id \in r.made}

Range(s) == {s[k] : k \in 1..Len(s)}

----------------------------------------------------------------------------
\* What a refused request looks like

C1_Refused ==
    \A t \in Tasks :
        (run[t].pc # "idle" /\ run[t].token # Some(INTERNAL_TOKEN)) =>
            /\ run[t].pc = "finished"
            /\ run[t].status = 403
            /\ run[t].summary = None
            /\ run[t].farms = <<>>
            /\ run[t].fetches = 0
            /\ run[t].made = {}

(* C1: a run-checks call whose token is absent or differs from the secret   *)
(* ends with 403 and processes nothing: it loads no farms, calls            *)
(* get_weather zero times, adds no alert, and the step that answers 403     *)
(* leaves the farms and alerts tables as they were.                         *)
C1_BadTokenForbidden ==
    /\ []C1_Refused
    /\ [][(resp'.kind = "run_checks" /\ resp'.status = 403) =>
            (alerts' = alerts /\ farms' = farms)]_vars

C1_Witness ==
    /\ resp.kind = "run_checks" /\ resp.status = 403
    /\ run[resp.task].token = None
    /\ Len(farms) > 0 /\ Len(alerts) > 0

----------------------------------------------------------------------------
\* The case of the reading 25 / 90 / 10 on a run over one farm

C2_Case(t) ==
    /\ Finished(t) /\ run[t].status = 200
    /\ Len(run[t].farms) = 1
    /\ run[t].weather = Some(Reading_25_90_10)

(* C2 as stated: with one farm loaded and the reading 25 / 90 / 10, the run *)
(* creates exactly one alert whose message holds all three labels.          *)
C2_AllThreeLabels ==
    \A t \in Tasks :
        C2_Case(t) =>
            /\ Cardinality(run[t].made) = 1
            /\ \A id \in run[t].made :
                 \A l \in {MILDEW, APHIDS, GRAYMOLD} : l \in Range(AlertById(id).message)

(* C2 amended: with one farm loaded and the reading 25 / 90 / 10, a run     *)
(* with the correct token creates exactly one alert, whose message is the   *)
(* farm's name prefix followed by the two labels that match, mildew and     *)
(* gray mold, joined by "; "; the aphids label is not in it.                *)

C2_TwoLabels ==
    \A t \in Tasks :
        C2_Case(t) =>
            /\ Cardinality(run[t].made) = 1
            /\ \A id \in run[t].made :
                 /\ AlertById(id).message =
                        <<"Farm '", run[t].farms[1].name, "' potential pests: ",
                          MILDEW, "; ", GRAYMOLD>>
                 /\ APHIDS \notin Range(AlertById(id).message)

C2_Witness == \E t \in Tasks : C2_Case(t) /\ run[t].made # {}

----------------------------------------------------------------------------
(* C4: every stored alert's farm_id is the id of a stored farm *)

C4_AlertsReferenceFarms ==
    \A k \in 1..Len(alerts) : alerts[k].farm_id \in Ids(farms)

C4_Witness ==
    /\ \A t \in Tasks : run[t].made # {}
    /\ \E t \in Tasks : run[t].pc = "fetch"
    /\ \E j, k \in 1..Len(alerts) : alerts[j].farm_id # alerts[k].farm_id

----------------------------------------------------------------------------
(* C5: a run that returns its summary has added exactly one alert for each  *)
(* loaded farm whose reading gave a label and none for the others, and its  *)
(* answer is 200 with status "done" and checked = the number of farms       *)
(* loaded.                                                                  *)

C5_OneAlertPerHit ==
    \A t \in Tasks :
        (Finished(t) /\ run[t].error = "none") =>
            /\ run[t].status = 200
            /\ run[t].summary = Some([status |-> "done", checked |-> Len(run[t].farms)])
            /\ run[t].made \subseteq Ids(alerts)
            /\ Cardinality(run[t].made) = Cardinality(run[t].hits)
            /\ MadeFarmIds(run[t]) = {run[t].farms[k].id : k \in run[t].hits}
            /\ \A id \in run[t].made :
                 \E k \in run[t].hits :
                    AlertById(id).message[2] = run[t].farms[k].name

C5_Witness ==
    \E t \in Tasks :
        /\ Finished(t) /\ run[t].error = "none"
        /\ Len(run[t].farms) = 2
        /\ Cardinality(run[t].hits) = 1

----------------------------------------------------------------------------
\* What list_farms answers, and what a step that changes the farms table does

C6_ListedAll ==
    resp.kind = "list_farms" =>
        \A k \in 1..Len(farms) : FarmOut(farms[k]) \in Range(resp.out)

C6_CreateStep ==
    /\ (resp'.kind = "create_farm" /\ resp'.status = 200) => farms' # farms
    /\ farms' # farms =>
        /\ Len(farms') = Len(farms) + 1
        /\ SubSeq(farms', 1, Len(farms)) = farms
        /\ LET farm == farms'[Len(farms')]
           IN  /\ farm.id \in Nat \ {0}
               /\ farm.id \notin Ids(farms)
               /\ resp'.kind = "create_farm"
               /\ resp'.status = 200
               /\ resp'.out = [id |-> farm.id, name |-> resp'.body.name,
                               latitude |-> resp'.body.latitude,
                               longitude |-> resp'.body.longitude]
               /\ farm.name = resp'.body.name
               /\ farm.latitude = resp'.body.latitude
               /\ farm.longitude = resp'.body.longitude

(* C6: a create-farm call that commits appends one farm and changes no      *)
(* other; the new farm's id is a positive integer that no farm stored       *)
(* before has; the response is that id with the name, latitude and          *)
(* longitude of the request body; and a list-farms answer holds every farm  *)
(* stored when it is given (with "farms only grow": every farm created      *)
(* before the call).                                                        *)
C6_CreateFarm == []C6_ListedAll /\ [][C6_CreateStep]_vars

C6_Witness ==
    /\ resp.kind = "list_farms"
    /\ Len(resp.out) = 2
    /\ resp.out[1].name # resp.out[2].name

----------------------------------------------------------------------------
(* C8: a synchronous handler's session is closed when its step ends, and a  *)
(* run_checks request holds an open session exactly while it is suspended   *)
(* in a fetch: once finished (summary, 403, weather or commit failure) its  *)
(* session is closed.                                                       *)

C8_SessionsClosed ==
    /\ SyncReq \notin sessions
    /\ \A t \in Tasks : (run[t].pc = "fetch") <=> (t \in sessions)

C8_Witness ==
    \E t, u \in Tasks :
        /\ Finished(t) /\ run[t].error = "weather"
        /\ run[t].i = 2 /\ run[t].made # {}
        /\ resp.kind = "run_checks" /\ resp.task = t
        /\ run[u].pc = "fetch" /\ sessions = {u}

----------------------------------------------------------------------------
\* A run that a failed fetch ended, and the step that ends it

C9_Aborted ==
    \A t \in Tasks :
        /\ run[t].pc = "fetch" => run[t].fetches = run[t].i
        /\ run[t].error = "weather" =>
            /\ Finished(t)
            /\ run[t].status = 500
            /\ run[t].summary = None
            /\ run[t].fetches = run[t].i
            /\ run[t].made \subseteq Ids(alerts)
            /\ MadeFarmIds(run[t]) \subseteq
                    {run[t].farms[k].id : k \in 1..(run[t].i - 1)}
            /\ Cardinality(run[t].made) <= run[t].i - 1

C9_FailStep ==
    \A t \in Tasks :
        (run[t].pc = "fetch" /\ run'[t].error = "weather") =>
            /\ alerts' = alerts
            /\ run'[t].made = run[t].made
            /\ resp' = [kind |-> "run_checks", task |-> t,
                        status |-> 500, body |-> None]

(* C9: when the fetch for the k-th farm fails the run ends with status 500  *)
(* and no summary; the step adds no alert; the alerts the run committed     *)
(* are stored and belong to farms 1..k-1 only; get_weather was called once  *)
(* per farm reached (k times): no retry.                                    *)
C9_FetchFailureAborts == []C9_Aborted /\ [][C9_FailStep]_vars

C9_Witness ==
    \E t \in Tasks :
        /\ run[t].error = "weather"
        /\ Len(run[t].farms) = 2 /\ run[t].i = 2
        /\ Cardinality(run[t].made) = 1

----------------------------------------------------------------------------
\* The loaded list against the table

C10_Snapshot ==
    \A t \in Tasks :
        /\ run[t].made # {} => MadeFarmIds(run[t]) \subseteq Ids(run[t].farms)
        /\ (Finished(t) /\ run[t].error = "none") =>
                run[t].summary = Some([status |-> "done", checked |-> Len(run[t].farms)])

C10_LoadedKept ==
    \A t \in Tasks :
        (run[t].pc = "fetch" /\ run'[t].pc # "idle") => run'[t].farms = run[t].farms

(* C10: a run works on the farms it loaded at its start: the list does not  *)
(* change while the run is suspended, every alert of the run is for a       *)
(* loaded farm, and checked is the length of the loaded list, also when a   *)
(* create-farm has added a farm in between.                                 *)
C10_SweepUsesLoadedFarms == []C10_Snapshot /\ [][C10_LoadedKept]_vars

C10_Witness ==
    \E t \in Tasks :
        /\ Finished(t) /\ run[t].error = "none"
        /\ Len(run[t].farms) = 1 /\ Len(farms) = 2
        /\ run[t].made # {}
        /\ resp.kind = "run_checks" /\ resp.task = t

----------------------------------------------------------------------------
\* The three rules, read off the reading

C3_Holds(label) ==
    LET both == weather.temperature # None /\ weather.humidity # None
        rain == IF weather.rain_mm = None THEN 0 ELSE weather.rain_mm[1]
    IN  both /\
        CASE label = MILDEW ->
                weather.humidity[1] > 80 /\ weather.temperature[1] >= 20
                                         /\ weather.temperature[1] <= 28
          [] label = APHIDS ->
                weather.temperature[1] > 30 /\ weather.humidity[1] < 40
          [] label = GRAYMOLD ->
                weather.humidity[1] > 85 /\ rain > 5

(* C3: evaluate_rules returns exactly the labels whose rule holds, in the   *)
(* order mildew, aphids, gray mold, each at most once; an absent rain is 0; *)
(* the result is empty when temperature or humidity is absent.              *)
C3_RulesExact ==
    pests # None =>
        LET out == pests[1]
        IN  /\ out = SelectSeq(<<MILDEW, APHIDS, GRAYMOLD>>, C3_Holds)
            /\ \A j, k \in 1..Len(out) : out[j] = out[k] => j = k
            /\ (weather.temperature = None \/ weather.humidity = None) => out = <<>>

C3_Witness ==
    /\ pests = Some(<<MILDEW, GRAYMOLD>>)
    /\ weather.temperature = Some(28) /\ weather.humidity = Some(86)
    /\ weather.rain_mm = Some(6)

----------------------------------------------------------------------------
(* C7: a list-alerts answer has at most 100 alerts, all of them stored, in  *)
(* non-increasing timestamp order, and when more than 100 are stored no     *)
(* alert left out is strictly newer than one that is returned.              *)

C7_NewestHundred ==
    resp.kind = "list_alerts" =>
        LET out == resp.out
        IN  /\ Len(out) <= 100
            /\ Range(out) \subseteq Range(alerts)
            /\ \A k \in 1..(Len(out) - 1) : out[k].timestamp >= out[k + 1].timestamp
            /\ Len(alerts) > 100 =>
                 \A a \in Range(alerts) \ Range(out) :
                    \A b \in Range(out) : ~(a.timestamp > b.timestamp)

C7_Witness ==
    /\ resp.kind = "list_alerts"
    /\ Len(alerts) > 100
    /\ Len(resp.out) = 100
    /\ resp.out[1].timestamp > resp.out[100].timestamp
    /\ \E a \in Range(alerts) \ Range(resp.out) :
          /\ a.timestamp < resp.out[1].timestamp
          /\ \E b \in Range(resp.out) : b.id > a.id

====
